---- MODULE Spec2Model ----
(***************************************************************************)
(* clix (src/main.go): load-or-create of the credential file, client       *)
(* construction, and the read-publish loop.                                *)
(*                                                                         *)
(* Strings are sequences of one-character tokens.  "<FF>" is a byte that   *)
(* is not valid UTF-8, "<FFFD>" is the rune U+FFFD, "\\ufffd" is the JSON  *)
(* escape of that rune as it is written on disk.                           *)
(***************************************************************************)
EXTENDS Integers, Sequences, FiniteSets, TLC

\* ---------------------------------------------------------------- bounds
MaxTweetPrompts == 3
MaxCalls == 2

\* ------------------------------------------------------------ the record
\* type Config struct, in declaration order
Fields == <<"consumer_key", "consumer_secret", "access_token", "access_secret">>

FieldSet == {Fields[i] : i \in 1..Len(Fields)}

\* config := &Config{}
EmptyConfig == [f \in FieldSet |-> <<>>]

\* variant: the record is always treated as incomplete
IncompleteAlways(c) == TRUE

\* the condition of the if statement that guards the re-prompt
Incomplete(c) ==
    \/ c["consumer_key"] = <<>>
    \/ c["consumer_secret"] = <<>>
    \/ c["access_token"] = <<>>
    \/ c["access_secret"] = <<>>

\* ---------------------------------------------------------------- strings
WhiteSpace == {" ", "\t", "\n", "\r"}

RECURSIVE TrimLeft(_)
TrimLeft(s) ==
    IF s # <<>> /\ Head(s) \in WhiteSpace THEN TrimLeft(Tail(s)) ELSE s

RECURSIVE TrimRight(_)
TrimRight(s) ==
    IF s # <<>> /\ s[Len(s)] \in WhiteSpace
    THEN TrimRight(SubSeq(s, 1, Len(s) - 1))
    ELSE s

\* strings.TrimSpace
TrimSpace(s) == TrimRight(TrimLeft(s))

\* bufio.Reader.ReadString('\n') on the bytes the input delivers before it
\* stops: err is non-nil exactly when the data does not end in the delimiter
ReadString(chunk) ==
    [text |-> chunk,
     err  |-> (chunk = <<>> \/ chunk[Len(chunk)] # "\n")]

\* variant: only exit ends the loop
IsSentinelExitOnly(text) == text = <<"e", "x", "i", "t">>

\* the sentinel test of the posting loop
IsSentinel(text) == text = <<"e", "x", "i", "t">> \/ text = <<"q", "u", "i", "t">>

\* ------------------------------------------------------------------ JSON
\* json.Encoder writes a string coerced to valid UTF-8: an invalid byte
\* becomes the escape of U+FFFD
QuoteChar(c) == IF c = "<FF>" THEN "\\ufffd" ELSE c

Quote(s) == [i \in 1..Len(s) |-> QuoteChar(s[i])]

\* json.Decoder reads an escape back as its rune, and an invalid byte of a
\* string literal as U+FFFD
UnquoteChar(c) == IF c \in {"\\ufffd", "<FF>"} THEN "<FFFD>" ELSE c

Unquote(s) == [i \in 1..Len(s) |-> UnquoteChar(s[i])]

NoMembers == [f \in {} |-> <<>>]

\* text that starts no JSON value
Garbage == [kind |-> "garbage", members |-> NoMembers]

\* a JSON value that is not an object
ArrayValue == [kind |-> "array", members |-> NoMembers]

Object(m) == [kind |-> "object", members |-> m]

\* saveConfig's encoder.Encode(config): one object holding the four members
Encode(c) == <<Object([f \in FieldSet |-> Quote(c[f])])>>

\* decoder.Decode(config): reads the first JSON value of the file and stops
\* there; members the object does not hold leave the field as it was
Decode(content, into) ==
    IF content = <<>> THEN [err |-> "EOF", rec |-> into]
    ELSE IF Head(content).kind = "garbage" THEN [err |-> "syntax", rec |-> into]
    ELSE IF Head(content).kind = "array" THEN [err |-> "type", rec |-> into]
    ELSE [err |-> "none",
          rec |-> [f \in FieldSet |->
                     IF f \in DOMAIN Head(content).members
                     THEN Unquote(Head(content).members[f])
                     ELSE into[f]]]

\* the whole file is one JSON value
ValidJSON(content) ==
    Len(content) = 1 /\ content[1].kind \in {"object", "array"}

\* the file does not exist
Absent == <<[kind |-> "absent", members |-> NoMembers]>>

\* ----------------------------------------------------------- environment
\* what the input can deliver to one ReadString call before it stops; the
\* empty chunk is end of input
CredChunks ==
    { <<" ", "k", "\n">>, <<"\n">>, <<"<FF>", "\n">>, <<"k">>, <<>> }

TweetChunks ==
    { <<"h", "i", "\n">>, <<" ", "e", "x", "i", "t", " ", "\n">>,
      <<"q", "u", "i", "t", "\r", "\n">>, <<"E", "x", "i", "t", "\n">>,
      <<" ", "\n">>, <<"e", "x", "i", "t">>, <<>> }

KeyVal == <<"k">>

\* the config files the program may find: none, an empty file, text that is
\* not JSON, a JSON array, objects holding some of the four members (one of
\* them with an empty member), and objects followed by text that is not JSON
InitialFiles ==
    {Absent, <<>>, <<Garbage>>, <<ArrayValue>>}
    \cup {<<Object([f \in S |-> KeyVal])>> :
            S \in {FieldSet, {"consumer_key"}, {"consumer_secret", "access_token"},
                   FieldSet \ {"access_token"}}}
    \cup {<<Object([f \in FieldSet |-> IF f = "consumer_secret" THEN <<>> ELSE KeyVal])>>}
    \cup {<<Object([f \in S |-> KeyVal]), Garbage>> : S \in {{}, FieldSet}}

\* the texts the program prints
MsgHome == "Error getting home directory:"
MsgNotFound == "Configuration file not found. Creating a new one..."
MsgIncomplete == "Configuration file is incomplete. Prompting for missing values..."
MsgLoad == "Error loading configuration:"
MsgClient == "Error creating client:"
MsgTweet == "tweet: "
MsgRead == "Error reading input:"
MsgGoodbye == "Goodbye!"
MsgPost == "Error posting tweet:"
MsgPosted == "Tweet posted successfully!"

Label(f) ==
    CASE f = "consumer_key" -> "Enter Consumer Key: "
      [] f = "consumer_secret" -> "Enter Consumer Secret: "
      [] f = "access_token" -> "Enter Access Token: "
      [] f = "access_secret" -> "Enter Access Secret: "

ErrMkdir == "failed to create config directory"
ErrOpen == "failed to open config file"
ErrParse == "failed to parse config file"
ErrCreate == "failed to create config file"
ErrWrite == "failed to write config file"

NoCall ==
    [done |-> FALSE, ok |-> FALSE, ret |-> EmptyConfig, prompted |-> <<>>,
     wrote |-> FALSE, file |-> Absent, after |-> Absent]

VARIABLES
    pc,            \* where the process is
    dirExists,     \* <home>/.config exists
    cfgFile,       \* content of <home>/.config/clix.json, or Absent
    config,        \* the Config under construction / returned
    pf,            \* promptForConfigValues: index of the next field
    loadErr,       \* the error loadOrCreateConfig returns, "none" if nil
    eof,           \* standard input is at end of input for good
    envSet,        \* GOTWI_API_KEY / GOTWI_API_KEY_SECRET were set
    clientBuilt,   \* gotwi.NewClient returned a client
    tweetText,     \* the trimmed text about to be published
    lastMsg,       \* the last text printed
    exitCode,      \* the process's exit code, -1 while it runs
    \* history of the run
    fileAtStart,   \* cfgFile when loadOrCreateConfig was called
    loaded,        \* the record handed to promptForConfigValues
    prompted,      \* the fields prompted for, in order
    wrote,         \* saveConfig wrote the record
    loadReturned,  \* loadOrCreateConfig returned
    tweetPrompts,  \* number of "tweet: " prompts printed
    reads,         \* what each ReadString of the loop returned, in order
    published,     \* texts handed to managetweet.Create, in order
    pubFails,      \* number of publish attempts that failed
    calls,         \* number of calls of loadOrCreateConfig so far
    prevCall       \* what the previous call of loadOrCreateConfig did

vars == <<pc, dirExists, cfgFile, config, pf, loadErr, eof, envSet, clientBuilt,
          tweetText, lastMsg, exitCode, fileAtStart, loaded, prompted, wrote,
          loadReturned, tweetPrompts, reads, published, pubFails, calls, prevCall>>

fsVars == <<dirExists, cfgFile>>
loadVars == <<config, pf, loadErr, loaded, prompted, wrote, loadReturned>>
loopVars == <<tweetText, tweetPrompts, reads, published, pubFails>>
mainVars == <<envSet, clientBuilt>>
callVars == <<fileAtStart, calls, prevCall>>

Init ==
    /\ pc = "start"
    /\ cfgFile \in InitialFiles
    /\ dirExists \in (IF cfgFile = Absent THEN BOOLEAN ELSE {TRUE})
    /\ config = EmptyConfig
    /\ pf = 1
    /\ loadErr = "none"
    /\ eof = FALSE
    /\ envSet = FALSE
    /\ clientBuilt = FALSE
    /\ tweetText = <<>>
    /\ lastMsg = ""
    /\ exitCode = -1
    /\ fileAtStart = cfgFile
    /\ loaded = EmptyConfig
    /\ prompted = <<>>
    /\ wrote = FALSE
    /\ loadReturned = FALSE
    /\ tweetPrompts = 0
    /\ reads = <<>>
    /\ published = <<>>
    /\ pubFails = 0
    /\ calls = 1
    /\ prevCall = NoCall

\* one ReadString call on standard input: the chunk it returns and whether
\* the input is at its end afterwards (it is not after a whole line, it is
\* when nothing at all could be read).  promptForConfigValues and main each
\* make their own bufio.Reader, so what the first buffered ahead never
\* reaches the second: the chunks are whatever the input still delivers.
Reads(chunks) ==
    IF eof THEN {[chunk |-> <<>>, eof |-> TRUE]}
    ELSE {r \in [chunk : chunks, eof : BOOLEAN] :
            /\ r.eof => ReadString(r.chunk).err
            /\ r.chunk = <<>> => r.eof}

\* ---------------------------------------------------- loadOrCreateConfig
\* getConfigFilePath: os.UserHomeDir fails -> print, os.Exit(1)
GetConfigFilePath ==
    /\ pc = "start"
    /\ \E homeOK \in BOOLEAN :
         IF homeOK
         THEN /\ pc' = "ensureDir"
              /\ UNCHANGED <<lastMsg, exitCode>>
         ELSE /\ lastMsg' = MsgHome
              /\ exitCode' = 1
              /\ pc' = "exited"
    /\ UNCHANGED <<fsVars, loadVars, loopVars, mainVars, callVars, eof>>

\* os.Stat(configDir) / os.MkdirAll(configDir)
EnsureConfigDir ==
    /\ pc = "ensureDir"
    /\ IF dirExists
       THEN /\ pc' = "statFile"
            /\ UNCHANGED <<dirExists, loadErr, loadReturned>>
       ELSE \E mkdirOK \in BOOLEAN :
              IF mkdirOK
              THEN /\ dirExists' = TRUE
                   /\ pc' = "statFile"
                   /\ UNCHANGED <<loadErr, loadReturned>>
              ELSE /\ loadErr' = ErrMkdir
                   /\ loadReturned' = TRUE
                   /\ pc' = "main"
                   /\ UNCHANGED dirExists
    /\ UNCHANGED <<cfgFile, config, pf, loaded, prompted, wrote, loopVars,
                   mainVars, callVars, eof, lastMsg, exitCode>>

\* config := &Config{}; os.Stat(configFilePath)
StatConfigFile ==
    /\ pc = "statFile"
    /\ config' = EmptyConfig
    /\ IF cfgFile = Absent
       THEN /\ lastMsg' = MsgNotFound
            /\ loaded' = EmptyConfig
            /\ pf' = 1
            /\ pc' = "prompt"
       ELSE /\ pc' = "open"
            /\ UNCHANGED <<lastMsg, loaded, pf>>
    /\ UNCHANGED <<fsVars, loadErr, prompted, wrote, loadReturned, loopVars,
                   mainVars, callVars, eof, exitCode>>

\* os.Open, decoder.Decode, and the completeness test
OpenAndDecode ==
    /\ pc = "open"
    /\ \E openOK \in BOOLEAN :
         IF ~openOK
         THEN /\ loadErr' = ErrOpen
              /\ loadReturned' = TRUE
              /\ pc' = "main"
              /\ UNCHANGED <<config, loaded, pf, lastMsg>>
         ELSE LET d == Decode(cfgFile, config) IN
              IF d.err # "none"
              THEN /\ loadErr' = ErrParse
                   /\ loadReturned' = TRUE
                   /\ pc' = "main"
                   /\ UNCHANGED <<config, loaded, pf, lastMsg>>
              ELSE /\ config' = d.rec
                   /\ IF Incomplete(d.rec)
                      THEN /\ lastMsg' = MsgIncomplete
                           /\ loaded' = d.rec
                           /\ pf' = 1
                           /\ pc' = "prompt"
                           /\ UNCHANGED <<loadErr, loadReturned>>
                      ELSE /\ loadReturned' = TRUE
                           /\ pc' = "main"
                           /\ UNCHANGED <<loadErr, loaded, pf, lastMsg>>
    /\ UNCHANGED <<fsVars, prompted, wrote, loopVars, mainVars, callVars, eof,
                   exitCode>>

\* variant: every field is prompted for
NeedsPromptAlways(c, f) == TRUE

\* the test in front of each prompt of promptForConfigValues
NeedsPrompt(c, f) == c[f] = <<>>

\* promptForConfigValues, one field: print the label, read a line (the
\* read error is dropped), store the trimmed text
PromptField ==
    /\ pc = "prompt"
    /\ LET f == Fields[pf] IN
         IF NeedsPrompt(config, f)
         THEN \E r \in Reads(CredChunks) :
                /\ lastMsg' = Label(f)
                /\ prompted' = Append(prompted, f)
                /\ config' = [config EXCEPT ![f] = TrimSpace(ReadString(r.chunk).text)]
                /\ eof' = r.eof
         ELSE UNCHANGED <<lastMsg, prompted, config, eof>>
    /\ IF pf < Len(Fields)
       THEN pf' = pf + 1 /\ pc' = pc
       ELSE pf' = pf /\ pc' = "save"
    /\ UNCHANGED <<fsVars, loadErr, loaded, wrote, loadReturned, loopVars,
                   mainVars, callVars, exitCode>>

\* saveConfig: os.Create truncates the file, encoder.Encode writes it
SaveConfig ==
    /\ pc = "save"
    /\ \E outcome \in {"ok", "create", "write"} :
         CASE outcome = "create" ->
                /\ loadErr' = ErrCreate
                /\ UNCHANGED <<cfgFile, wrote>>
           [] outcome = "write" ->
                /\ loadErr' = ErrWrite
                /\ cfgFile' = <<>>
                /\ UNCHANGED wrote
           [] outcome = "ok" ->
                /\ cfgFile' = Encode(config)
                /\ wrote' = TRUE
                /\ UNCHANGED loadErr
    /\ loadReturned' = TRUE
    /\ pc' = "main"
    /\ UNCHANGED <<dirExists, config, pf, loaded, prompted, loopVars, mainVars,
                   callVars, eof, lastMsg, exitCode>>

\* ------------------------------------------------------------------ main
\* variant: the error of loadOrCreateConfig is not looked at
LoadFailedIgnored == FALSE

\* if err != nil after loadOrCreateConfig
LoadFailed == loadErr # "none"

\* print the error and return
MainLoadError ==
    /\ pc = "main"
    /\ LoadFailed
    /\ lastMsg' = MsgLoad
    /\ exitCode' = 0
    /\ pc' = "exited"
    /\ UNCHANGED <<fsVars, loadVars, loopVars, mainVars, callVars, eof>>

\* os.Setenv twice, gotwi.NewClient
MainNewClient ==
    /\ pc = "main"
    /\ ~LoadFailed
    /\ envSet' = TRUE
    /\ \E clientOK \in BOOLEAN :
         IF clientOK
         THEN /\ clientBuilt' = TRUE
              /\ pc' = "tweetPrompt"
              /\ UNCHANGED <<lastMsg, exitCode>>
         ELSE /\ lastMsg' = MsgClient
              /\ exitCode' = 0
              /\ pc' = "exited"
              /\ UNCHANGED clientBuilt
    /\ UNCHANGED <<fsVars, loadVars, loopVars, callVars, eof>>

\* fmt.Print("tweet: ")
PrintTweetPrompt ==
    /\ pc = "tweetPrompt"
    /\ tweetPrompts < MaxTweetPrompts
    /\ lastMsg' = MsgTweet
    /\ tweetPrompts' = tweetPrompts + 1
    /\ pc' = "readTweet"
    /\ UNCHANGED <<fsVars, loadVars, mainVars, callVars, eof, exitCode,
                   tweetText, reads, published, pubFails>>

\* variant: the read error is dropped, as promptForConfigValues drops it
ReadFailedIgnored(rd) == FALSE

\* if err != nil after reader.ReadString
ReadFailed(rd) == rd.err

\* reader.ReadString, the error test, TrimSpace, the sentinel test
ReadTweet ==
    /\ pc = "readTweet"
    /\ \E r \in Reads(TweetChunks) :
         LET rd == ReadString(r.chunk)
             text == TrimSpace(rd.text)
         IN  /\ eof' = r.eof
             /\ reads' = Append(reads, r.chunk)
             /\ IF ReadFailed(rd)
                THEN /\ lastMsg' = MsgRead
                     /\ pc' = "tweetPrompt"
                     /\ UNCHANGED <<tweetText, exitCode>>
                ELSE IF IsSentinel(text)
                THEN /\ lastMsg' = MsgGoodbye
                     /\ exitCode' = 0
                     /\ pc' = "exited"
                     /\ UNCHANGED tweetText
                ELSE /\ tweetText' = text
                     /\ pc' = "publish"
                     /\ UNCHANGED <<lastMsg, exitCode>>
    /\ UNCHANGED <<fsVars, loadVars, mainVars, callVars, tweetPrompts,
                   published, pubFails>>

\* variant: a failed publish is tried a second time
AttemptsWithRetry(text, ok) == IF ok THEN <<text>> ELSE <<text, text>>

\* the calls of managetweet.Create one loop iteration makes for its text
Attempts(text, ok) == <<text>>

\* variant: a failed publish ends the process
AfterPublishErrorQuits == "exited"

\* where the loop goes after a failed publish (continue)
AfterPublishError == "tweetPrompt"

\* managetweet.Create and the printing of its outcome
Publish ==
    /\ pc = "publish"
    /\ \E ok \in BOOLEAN :
         /\ published' = published \o Attempts(tweetText, ok)
         /\ IF ok
            THEN /\ lastMsg' = MsgPosted
                 /\ pc' = "tweetPrompt"
                 /\ UNCHANGED pubFails
            ELSE /\ lastMsg' = MsgPost
                 /\ pubFails' = pubFails + 1
                 /\ pc' = AfterPublishError
    /\ UNCHANGED <<fsVars, loadVars, mainVars, callVars, eof, exitCode,
                   tweetText, tweetPrompts, reads>>

\* a caller that calls loadOrCreateConfig again after it returned
Reload ==
    /\ pc = "main"
    /\ calls < MaxCalls
    /\ prevCall' = [done |-> TRUE, ok |-> ~LoadFailed, ret |-> config,
                    prompted |-> prompted, wrote |-> wrote,
                    file |-> fileAtStart, after |-> cfgFile]
    /\ calls' = calls + 1
    /\ fileAtStart' = cfgFile
    /\ config' = EmptyConfig
    /\ pf' = 1
    /\ loadErr' = "none"
    /\ loaded' = EmptyConfig
    /\ prompted' = <<>>
    /\ wrote' = FALSE
    /\ loadReturned' = FALSE
    /\ pc' = "start"
    /\ UNCHANGED <<fsVars, loopVars, mainVars, eof, lastMsg, exitCode>>

Next ==
    \/ GetConfigFilePath
    \/ EnsureConfigDir
    \/ StatConfigFile
    \/ OpenAndDecode
    \/ PromptField
    \/ SaveConfig
    \/ MainLoadError
    \/ MainNewClient
    \/ PrintTweetPrompt
    \/ ReadTweet
    \/ Publish

\* the program, run once
Spec == Init /\ [][Next]_vars

NextLoad ==
    \/ GetConfigFilePath
    \/ EnsureConfigDir
    \/ StatConfigFile
    \/ OpenAndDecode
    \/ PromptField
    \/ SaveConfig
    \/ Reload

\* loadOrCreateConfig, called MaxCalls times in succession
SpecLoad == Init /\ [][NextLoad]_vars

\* ================================================================ claims
SentinelTexts == { <<"e", "x", "i", "t">>, <<"q", "u", "i", "t">> }

EndsInNewline(c) == c # <<>> /\ c[Len(c)] = "\n"

NonSentinel(t) == t \notin SentinelTexts

\* the lines the loop read without error, trimmed
LinesRead ==
    LET ok == SelectSeq(reads, EndsInNewline)
    IN  [i \in 1..Len(ok) |-> TrimSpace(ok[i])]

EmptyFields(rec, n) == SelectSeq(SubSeq(Fields, 1, n), LAMBDA f : rec[f] = <<>>)

\* the record loadOrCreateConfig starts from: empty, or parsed from the file
StartRecord ==
    IF fileAtStart = Absent THEN EmptyConfig
    ELSE Decode(fileAtStart, EmptyConfig).rec

CompleteValid(file) ==
    /\ file # Absent
    /\ ValidJSON(file)
    /\ Decode(file, EmptyConfig).err = "none"
    /\ \A f \in FieldSet : Decode(file, EmptyConfig).rec[f] # <<>>

InLoop == pc \in {"tweetPrompt", "readTweet", "publish"}

\* C1: a successfully read line whose trimmed text is exit or quit is the
\* last thing the loop reads: Goodbye! is printed, the process has ended
\* with code 0, the sentinel was not published, and the publish attempts are
\* those of the lines before it.
C1_SentinelTermination ==
    \A i \in 1..Len(LinesRead) :
        LinesRead[i] \in SentinelTexts =>
            /\ i = Len(LinesRead)
            /\ EndsInNewline(reads[Len(reads)])
            /\ tweetPrompts = Len(reads)
            /\ pc = "exited"
            /\ lastMsg = MsgGoodbye
            /\ exitCode = 0
            /\ Len(published) = Len(LinesRead) - 1
            /\ \A j \in 1..Len(published) : published[j] = LinesRead[j]

C1_Witness ==
    /\ reads = << <<"h", "i", "\n">>, <<" ", "e", "x", "i", "t", " ", "\n">> >>
    /\ published = << <<"h", "i">> >>
    /\ pc = "exited"
    /\ lastMsg = MsgGoodbye

\* C2: a failed publish prints the error, leaves the process running with
\* the text attempted once, and the only step after it prints the next
\* tweet prompt without publishing anything.
C2_PublishFailureResilience ==
    [][ /\ (pc = "publish" /\ pubFails' > pubFails) =>
              /\ lastMsg' = MsgPost
              /\ pc' = "tweetPrompt"
              /\ exitCode' = -1
              /\ published' = Append(published, tweetText)
        /\ (lastMsg = MsgPost) =>
              /\ pc' = "readTweet"
              /\ lastMsg' = MsgTweet
              /\ exitCode' = -1
              /\ published' = published ]_vars

C2_Witness ==
    /\ pubFails = 2
    /\ Len(published) = 2
    /\ tweetPrompts = 3
    /\ pc = "readTweet"
    /\ lastMsg = MsgTweet

\* C3: promptForConfigValues prompts for exactly the empty fields of the
\* record it starts from, in declaration order, each once, and the populated
\* fields keep their values; a complete record is not prompted for at all.
C3_CompletenessGate ==
    /\ pc = "prompt" =>
          /\ loaded = StartRecord
          /\ prompted = EmptyFields(loaded, pf - 1)
          /\ \A f \in FieldSet : loaded[f] # <<>> => config[f] = loaded[f]
    /\ (pc = "save" \/ (loadReturned /\ loadErr \in {"none", ErrCreate, ErrWrite})) =>
          /\ prompted = EmptyFields(StartRecord, Len(Fields))
          /\ \A f \in FieldSet : StartRecord[f] # <<>> => config[f] = StartRecord[f]

C3_Witness ==
    /\ loadReturned
    /\ loadErr = "none"
    /\ prompted = <<"consumer_key", "access_secret">>
    /\ config["consumer_secret"] = KeyVal
    /\ config["access_token"] = KeyVal

\* C4: whenever loadOrCreateConfig returns without error, all four fields of
\* the record are non-empty, and no client is built from an incomplete one.
C4_ReturnsCompleteRecord ==
    (loadReturned /\ loadErr = "none") =>
        \A f \in FieldSet : config[f] # <<>>

\* C5: a config file that is not JSON makes loadOrCreateConfig fail, with no
\* prompt, the file left as it was, no client, no tweet prompt, no publish.
C5_MalformedConfig ==
    (fileAtStart # Absent /\ ~ValidJSON(fileAtStart)) =>
        /\ prompted = <<>>
        /\ cfgFile = fileAtStart
        /\ ~envSet
        /\ ~clientBuilt
        /\ tweetPrompts = 0
        /\ published = <<>>
        /\ loadReturned => loadErr \in {ErrParse, ErrOpen}

\* C6: with a complete, valid config file, a call of loadOrCreateConfig
\* prompts for nothing and leaves the file alone, and two successive calls
\* that return a record return the record of the file both times.
C6_IdempotentReload ==
    /\ CompleteValid(fileAtStart) =>
          /\ prompted = <<>>
          /\ ~wrote
          /\ cfgFile = fileAtStart
    /\ (/\ prevCall.done /\ prevCall.ok /\ CompleteValid(prevCall.file)
        /\ loadReturned /\ loadErr = "none") =>
          /\ prevCall.prompted = <<>>
          /\ ~prevCall.wrote
          /\ prevCall.after = prevCall.file
          /\ fileAtStart = prevCall.file
          /\ config = prevCall.ret
          /\ config = Decode(prevCall.file, EmptyConfig).rec

C6_Witness ==
    /\ calls = 2
    /\ prevCall.done
    /\ prevCall.ok
    /\ CompleteValid(prevCall.file)
    /\ loadReturned
    /\ loadErr = "none"

\* C7: a failed setup step is printed and ends the process with no tweet
\* prompt and no publish; a failure of loadOrCreateConfig (or of the home
\* directory lookup) leaves the environment unset and builds no client; the
\* loop runs only after every setup step succeeded.
C7_StartupErrorsFatal ==
    /\ lastMsg = MsgHome =>
          /\ pc = "exited" /\ exitCode = 1 /\ ~loadReturned
          /\ ~envSet /\ ~clientBuilt
    /\ loadErr # "none" =>
          /\ pc \in {"main", "exited"}
          /\ pc = "exited" => lastMsg = MsgLoad
          /\ ~envSet /\ ~clientBuilt
    /\ lastMsg = MsgClient => (pc = "exited" /\ ~clientBuilt)
    /\ (pc = "exited" /\ ~clientBuilt) =>
          /\ lastMsg \in {MsgHome, MsgLoad, MsgClient}
          /\ tweetPrompts = 0 /\ reads = <<>> /\ published = <<>>
    /\ (InLoop \/ tweetPrompts > 0 \/ published # <<>>) =>
          (loadReturned /\ loadErr = "none" /\ envSet /\ clientBuilt)

C7_Witness ==
    /\ pc = "exited"
    /\ loadErr = ErrWrite
    /\ lastMsg = MsgLoad
    /\ prompted # <<>>

\* C8: after loadOrCreateConfig returns a record, reading the config file
\* back yields that record in all four fields.
C8_RoundTripPersistence ==
    (loadReturned /\ loadErr = "none") =>
        Decode(cfgFile, EmptyConfig) = [err |-> "none", rec |-> config]

\* C9: the publish attempts are, in order, the trimmed texts of the lines
\* read without error that are not sentinels, the empty text included, one
\* attempt each whether it fails or not, each made before the next prompt.
C9_OnePublishPerLine ==
    LET expected == SelectSeq(LinesRead, NonSentinel) IN
    /\ pc = "publish" => expected = Append(published, tweetText)
    /\ pc # "publish" => published = expected
    /\ Len(reads) = tweetPrompts - (IF pc = "readTweet" THEN 1 ELSE 0)

C9_Witness ==
    /\ published = << <<>>, <<"E", "x", "i", "t">>, <<"h", "i">> >>
    /\ pubFails = 2
    /\ pc = "tweetPrompt"

\* C10: a failed read in the loop prints a message and goes to the next
\* prompt without publishing or ending the process, whatever text came with
\* the failure; once the input is at its end the loop never ends and never
\* publishes.
C10_ReadFailureContinues ==
    [][ /\ (pc = "readTweet" /\ reads' # reads /\ ~EndsInNewline(reads'[Len(reads')])) =>
              /\ lastMsg' = MsgRead
              /\ pc' = "tweetPrompt"
              /\ exitCode' = -1
              /\ published' = published
              /\ tweetText' = tweetText
        /\ (eof /\ pc \in {"tweetPrompt", "readTweet"}) =>
              /\ eof'
              /\ pc' \in {"tweetPrompt", "readTweet"}
              /\ exitCode' = -1
              /\ published' = published ]_vars

C10_Witness ==
    /\ Len(reads) = 2
    /\ reads[1] = <<"e", "x", "i", "t">>
    /\ reads[2] = <<>>
    /\ eof
    /\ pc = "readTweet"
    /\ tweetPrompts = 3
    /\ published = <<>>

====
